---- MODULE Spec2Model ----
(***************************************************************************)
(* Model of the Warthog peer-to-peer connection manager:                   *)
(*   src/src/node/asyncio/conman.cpp      (UV_Helper)                      *)
(*   src/src/node/asyncio/connection.cpp  (TCPConnection)                  *)
(*                                                                         *)
(* One loop thread runs the libuv callbacks (listen_event, async_event,    *)
(* end_event, error_event, close_event) one at a time; producer threads    *)
(* only append commands to `events` and signal the wakeup handle.          *)
(***************************************************************************)
EXTENDS Integers, Sequences, FiniteSets, TLC

\* ------------------------------------------------------------------ bounds
\* the number of inputs the environment gives: commands and tasks enqueued by
\* producer threads, incoming connections, and direct shutdown calls
MaxWork == 3

\* ------------------------------------------------------- values and inputs
Conns == 1..MaxWork
Addrs == {"10.0.0.1:1", "10.0.0.2:1"}
\* the peer socket addresses getpeername can report for an accepted socket
PeerSockaddrs == {[family |-> "AF_INET", addr |-> "127.0.0.1:50000"],
                  [family |-> "AF_INET6", addr |-> "[::1]:50000"]}
UV_EOF == "UV_EOF"
EBUFFERFULL == "EBUFFERFULL"
\* error codes are symbolic; "0" is the integer 0 (no error)
ConnectErrs == {"0", "ECONNREFUSED"}
ReadErrs == {"0", "ENOTCONN"}
WriteErrs == {"0", "ENOBUFS"}
SocketErrs == {"ECONNRESET"}
CloseCodes == {"ETIMEOUT"}
Reasons == {"0"}
\* connection.cpp:68 compares write_queue_size() with MAXBUFFER
MAXBUFFER == 2
QueueSizes == {MAXBUFFER, MAXBUFFER + 1}

VARIABLES
    isolated,           \* config().node.isolated
    events,             \* UV_Helper::events, the mutex-guarded command queue
    mutex,              \* UV_Helper::mutex: "free", or "loop" while on_wakeup holds the lock
    tmp,                \* on_wakeup's local queue
    pc,                 \* loop thread: "idle" (in the loop), "swap" or "drain" (in on_wakeup)
    wakeupPending,      \* the async handle has been signalled and not yet served
    nextId,             \* number of commands enqueued so far, plus one
    drainMark,          \* nextId at the latest swap of on_wakeup
    drainFrom,          \* number of commands executed before the latest swap
    executed,           \* the commands handle_event has run, in order
    closing,            \* UV_Helper::closing
    wakeupCloses,       \* number of wakeup->close() calls
    listenerCloses,     \* number of listener->close() calls
    shutdownCalls,      \* number of shutdown() calls
    shutdownMark,       \* nextId when shutdown first ran (0: not yet)
    tcpConnections,     \* UV_Helper::tcpConnections, in the container's iteration order
    nconns,             \* number of TCPConnection objects made so far
    con,                \* per connection: the TCPConnection, its handle and its observers
    untracked,          \* accepted sockets that no TCPConnection owns
    refused,            \* listen events the handler returned from without accepting
    failedConnects,     \* PeerServer::on_failed_connect calls, in order
    peersCb,            \* GetPeers callback invocations, in order
    lastWrite,          \* outcome of the latest tcpHandle->write
    crashed             \* the process has crashed (an outcome of undefined behaviour)

vars == <<isolated, events, mutex, tmp, pc, wakeupPending, nextId, drainMark, drainFrom,
          executed, closing,
          wakeupCloses, listenerCloses, shutdownCalls, shutdownMark,
          tcpConnections, nconns, con, untracked, refused, failedConnects,
          peersCb, lastWrite, crashed>>

queueVars == <<events, mutex, tmp, pc, wakeupPending, nextId, drainMark, drainFrom, executed>>
mgrVars == <<closing, wakeupCloses, listenerCloses, shutdownMark>>
conVars == <<tcpConnections, nconns, con>>
obsVars == <<untracked, refused, failedConnects, peersCb, lastWrite>>

\* ------------------------------------------------------------- helpers
Range(s) == {s[i] : i \in 1..Len(s)}

InsertAt(s, pos, x) == SubSeq(s, 1, pos - 1) \o <<x>> \o SubSeq(s, pos, Len(s))

RECURSIVE Remove(_, _)
Remove(s, x) ==
    IF s = <<>> THEN <<>>
    ELSE IF Head(s) = x THEN Tail(s)
    ELSE <<Head(s)>> \o Remove(Tail(s), x)

NoCon == [peer |-> "", inbound |-> FALSE, created |-> 0, handle |-> "none",
          data |-> FALSE, ext |-> FALSE, iter |-> 0, onClose |-> <<>>,
          writes |-> 0, connected |-> 0, auth |-> 0]

Init ==
    /\ isolated \in BOOLEAN
    /\ events = <<>>
    /\ mutex = "free"
    /\ tmp = <<>>
    /\ pc = "idle"
    /\ wakeupPending = FALSE
    /\ nextId = 1
    /\ drainMark = 1
    /\ drainFrom = 0
    /\ executed = <<>>
    /\ closing = FALSE
    /\ wakeupCloses = 0
    /\ listenerCloses = 0
    /\ shutdownCalls = 0
    /\ shutdownMark = 0
    /\ tcpConnections = <<>>
    /\ nconns = 0
    /\ con = [c \in Conns |-> NoCon]
    /\ untracked = 0
    /\ refused = 0
    /\ failedConnects = <<>>
    /\ peersCb = <<>>
    /\ lastWrite = [c |-> 0, err |-> "0", qsize |-> 0]
    /\ crashed = FALSE

\* ------------------------------------------------- TCPConnection (per object)
\* uvw handle::closing(): true once close() was called, also after the close completed
HandleClosing(cs, c) == cs[c].handle \in {"closing", "closed"}

\* close_internal without its `if (tcpHandle->closing()) return;`
close_internal_unguarded(cs, c, errcode) ==
    [cs EXCEPT ![c].handle = "closing",
               ![c].onClose = Append(@, errcode)]

\* a close_internal that leaves the notification to the completion of the close
close_internal_defers_notification(cs, c, errcode) ==
    IF HandleClosing(cs, c)
    THEN cs
    ELSE [cs EXCEPT ![c].handle = "closing"]

\* a close_internal that reports the code of the latest trigger
close_internal_keeps_last(cs, c, errcode) ==
    [cs EXCEPT ![c].handle = IF HandleClosing(cs, c) THEN @ ELSE "closing",
               ![c].onClose = <<errcode>>]

\* TCPConnection::close_internal: the connections after close_internal(errcode) on c
close_internal(cs, c, errcode) ==
    IF HandleClosing(cs, c)
    THEN cs
    ELSE [cs EXCEPT ![c].handle = "closing",
                    ![c].onClose = Append(@, errcode)]

\* TCPConnection::start_read_internal; e is what tcpHandle->read() returns.
\* on_connected hands the connection to the event loop, an external holder.
start_read_internal(cs, c, e) ==
    IF HandleClosing(cs, c)
    THEN cs
    ELSE IF e # "0"
         THEN close_internal(cs, c, e)
         ELSE [cs EXCEPT ![c].connected = @ + 1,
                         ![c].ext = TRUE]

\* a close condition that ignores a failed write unless the queue is over too
SendMustCloseBoth(err, qsize) == err # "0" /\ qsize > MAXBUFFER

\* whether the lambda of TCPConnection::async_send closes the connection
SendMustClose(err, qsize) == err # "0" \/ qsize > MAXBUFFER

\* body of the lambda queued by TCPConnection::async_send, run on object c;
\* err is what tcpHandle->write returns, qsize is write_queue_size() after it
async_send_task(cs, c, err, qsize) ==
    IF ~HandleClosing(cs, c)
    THEN LET w == [cs EXCEPT ![c].writes = @ + 1]
         IN  IF SendMustClose(err, qsize)
             THEN close_internal(w, c, EBUFFERFULL)
             ELSE w
    ELSE cs

\* the shared_ptr holders of connection c: the set, the handle's data, external
\* holders, and queued start_read / close lambdas (they capture shared_from_this)
QueuedRef(q, c) ==
    \E i \in 1..Len(q) : q[i].c = c /\ q[i].kind \in {"start_read", "close"}

Alive(c) ==
    \/ c \in Range(tcpConnections)
    \/ con[c].data
    \/ con[c].ext
    \/ QueuedRef(events, c)
    \/ QueuedRef(tmp, c)

\* ---------------------------------------------------------------- UV_Helper
\* the position tcpConnections.insert(con) puts the new element at: the
\* container orders shared_ptr values, so any position can result
InsertPositions(s) == 1..(Len(s) + 1)

\* the element `auto iter = tcpConnections.begin()` refers to after the insert
StoredIter(s) == Head(s)

\* UV_Helper::insert_connection: the new connection's id, the set and the
\* connections after it (make_new, insert, begin(), tcpHandle->data(con))
insert_connection(a, isInbound, pos) ==
    LET c == nconns + 1
        set == InsertAt(tcpConnections, pos, c)
    IN  [c |-> c,
         set |-> set,
         cs |-> [con EXCEPT ![c] = [NoCon EXCEPT !.peer = a,
                                                !.inbound = isInbound,
                                                !.created = c,
                                                !.handle = "open",
                                                !.data = TRUE,
                                                !.iter = StoredIter(set)]]]

\* an endpoint read from the storage without the check of ss_family
get_ipv4_endpoint_unchecked(storage) == storage.addr

\* get_ipv4_endpoint: the peer address, or "" (no value) when the family is not AF_INET
get_ipv4_endpoint(storage) == IF storage.family # "AF_INET" THEN "" ELSE storage.addr

\* a queued command; kind is the variant (GetPeers, Connect, Inspect) or, for a
\* DeferFunc, what its callback does
Cmd(id, kind, c, arg) == [id |-> id, kind |-> kind, c |-> c, arg |-> arg]

\* UV_Helper::async_call / the command API: push under the mutex, wakeup->send().
\* The mutex is not recursive: the caller waits while the lock is held.
async_call(kind, c, arg) ==
    /\ mutex = "free"
    /\ events' = Append(events, Cmd(nextId, kind, c, arg))
    /\ nextId' = nextId + 1
    /\ wakeupPending' = TRUE

\* how many commands of the given kinds a queue holds
CountKinds(q, kinds) == Cardinality({i \in 1..Len(q) : q[i].kind \in kinds})

\* the inputs the environment has given so far: every command enqueued (the
\* start_read that connect enqueues and the command a DeferFunc callback
\* enqueues are counted with the command that causes them, from the moment
\* it is enqueued), every listen event and every direct shutdown call
Work ==
    (nextId - 1)
    + CountKinds(events, {"Connect", "DeferEnqueue"})
    + CountKinds(tmp, {"Connect", "DeferEnqueue"})
    + Cardinality({c \in Conns : con[c].inbound})
    + untracked + refused
    + (shutdownCalls - CountKinds(executed, {"DeferShutdown"}))

\* ------------------------------------------------------- producer threads
\* get_peers / inspect / defer: a command without arguments
Enqueue(kind) ==
    /\ ~crashed
    /\ Work + (IF kind = "DeferEnqueue" THEN 1 ELSE 0) < MaxWork
    /\ async_call(kind, 0, "")
    /\ UNCHANGED <<isolated, mutex, tmp, pc, drainMark, drainFrom, executed, mgrVars, shutdownCalls, conVars,
                   obsVars, crashed>>

\* connect(address)
EnqueueConnect(a) ==
    /\ ~crashed
    /\ Work + 1 < MaxWork
    /\ async_call("Connect", 0, a)
    /\ UNCHANGED <<isolated, mutex, tmp, pc, drainMark, drainFrom, executed, mgrVars, shutdownCalls, conVars,
                   obsVars, crashed>>

\* a deferred callback that calls shutdown(reason)
EnqueueShutdown(reason) ==
    /\ ~crashed
    /\ Work < MaxWork
    /\ async_call("DeferShutdown", 0, reason)
    /\ UNCHANGED <<isolated, mutex, tmp, pc, drainMark, drainFrom, executed, mgrVars, shutdownCalls, conVars,
                   obsVars, crashed>>

\* TCPConnection::start_read, called by a holder of the connection
start_read(c) ==
    /\ ~crashed
    /\ Work < MaxWork
    /\ con[c].ext
    /\ async_call("start_read", c, "")
    /\ UNCHANGED <<isolated, mutex, tmp, pc, drainMark, drainFrom, executed, mgrVars, shutdownCalls, conVars,
                   obsVars, crashed>>

\* TCPConnection::close, called by a holder of the connection
close(c, errcode) ==
    /\ ~crashed
    /\ Work < MaxWork
    /\ con[c].ext
    /\ async_call("close", c, errcode)
    /\ UNCHANGED <<isolated, mutex, tmp, pc, drainMark, drainFrom, executed, mgrVars, shutdownCalls, conVars,
                   obsVars, crashed>>

\* TCPConnection::async_send, called by a holder of the connection
async_send(c) ==
    /\ ~crashed
    /\ Work < MaxWork
    /\ con[c].ext
    /\ async_call("async_send", c, "")
    /\ UNCHANGED <<isolated, mutex, tmp, pc, drainMark, drainFrom, executed, mgrVars, shutdownCalls, conVars,
                   obsVars, crashed>>

\* an external holder (peer server, event loop) drops its shared_ptr
ReleaseExternal(c) ==
    /\ ~crashed
    /\ con[c].ext
    /\ con' = [con EXCEPT ![c].ext = FALSE]
    /\ UNCHANGED <<isolated, queueVars, mgrVars, shutdownCalls, tcpConnections,
                   nconns, obsVars, crashed>>

\* ------------------------------------------------------------ loop thread
\* on_wakeup's std::swap(tmp, events): what the local queue holds afterwards
Swapped(ev) == ev

\* a loop that visits the back of the queue instead of its front
FrontTakesBack(t) == t[Len(t)]

\* tmp.front(): the command on_wakeup's loop visits next
Front(t) == Head(t)

\* tmp.pop()
Popped(t) == Tail(t)

\* the wakeup handle's async_event: on_wakeup is entered and takes the lock
\* (`std::unique_lock lock(mutex)`, conman.cpp:79)
Wakeup ==
    /\ ~crashed
    /\ pc = "idle"
    /\ wakeupPending
    /\ wakeupCloses = 0
    /\ mutex = "free"
    /\ mutex' = "loop"
    /\ pc' = "swap"
    /\ wakeupPending' = FALSE
    /\ UNCHANGED <<isolated, events, tmp, nextId, drainMark, drainFrom, executed,
                   mgrVars, shutdownCalls, conVars, obsVars, crashed>>

\* a lock whose scope is the whole of on_wakeup
MutexHeldThroughDrain == "loop"

\* the mutex at the closing brace of the block around the swap (conman.cpp:81)
MutexAfterSwap == "free"

\* on_wakeup's `std::swap(tmp, events)` under the lock, and the end of the
\* lock's scope
SwapUnderLock ==
    /\ ~crashed
    /\ pc = "swap"
    /\ mutex = "loop"
    /\ tmp' = Swapped(events)
    /\ events' = <<>>
    /\ mutex' = MutexAfterSwap
    /\ pc' = "drain"
    /\ drainMark' = nextId
    /\ drainFrom' = Len(executed)
    /\ UNCHANGED <<isolated, wakeupPending, nextId, executed, mgrVars, shutdownCalls,
                   conVars, obsVars, crashed>>

\* on_wakeup's loop: std::visit on tmp.front() of the given kind, then tmp.pop()
Visit(kind) ==
    /\ ~crashed
    /\ pc = "drain"
    /\ tmp # <<>>
    /\ Front(tmp).kind = kind
    /\ tmp' = Popped(tmp)
    /\ executed' = Append(executed, Front(tmp))

\* on_wakeup returns when tmp is empty
DrainEnd ==
    /\ ~crashed
    /\ pc = "drain"
    /\ tmp = <<>>
    /\ pc' = "idle"
    /\ UNCHANGED <<isolated, events, mutex, tmp, wakeupPending, nextId, drainMark, drainFrom,
                   executed, mgrVars,
                   shutdownCalls, conVars, obsVars, crashed>>

\* a snapshot loop that misses the first element of tcpConnections
PeersDataSkipsFirst(set, cs) ==
    [i \in 1..(Len(set) - 1) |->
        [peer |-> cs[set[i + 1]].peer, created |-> cs[set[i + 1]].created]]

\* the list handle_event(GetPeers&&) passes to the callback
PeersData(set, cs) ==
    [i \in 1..Len(set) |-> [peer |-> cs[set[i]].peer, created |-> cs[set[i]].created]]

\* UV_Helper::handle_event(GetPeers&&)
HandleGetPeers ==
    /\ Visit("GetPeers")
    /\ peersCb' = Append(peersCb, [id |-> Front(tmp).id,
                                   data |-> PeersData(tcpConnections, con)])
    /\ UNCHANGED <<isolated, events, mutex, pc, wakeupPending, nextId, drainMark, drainFrom,
                   mgrVars,
                   shutdownCalls, conVars, untracked, refused, failedConnects,
                   lastWrite, crashed>>

\* UV_Helper::handle_event(Inspect&&): the callback reads the manager
HandleInspect ==
    /\ Visit("Inspect")
    /\ UNCHANGED <<isolated, events, mutex, pc, wakeupPending, nextId, drainMark, drainFrom,
                   mgrVars,
                   shutdownCalls, conVars, obsVars, crashed>>

\* UV_Helper::handle_event(DeferFunc&&) with a callback that enqueues a command
HandleDeferEnqueue ==
    /\ Visit("DeferEnqueue")
    /\ async_call("Inspect", 0, "")
    /\ UNCHANGED <<isolated, mutex, pc, drainMark, drainFrom, mgrVars, shutdownCalls, conVars, obsVars, crashed>>

\* UV_Helper::handle_event(Connect&&) and UV_Helper::connect; err is what
\* tcp->connect returns. The insert and start_read follow the error branch
\* unconditionally.
HandleConnect(err, pos) ==
    /\ Visit("Connect")
    /\ LET a == Front(tmp).arg
           ins == insert_connection(a, FALSE, pos)
       IN  /\ failedConnects' = IF err # "0"
                                 THEN Append(failedConnects, [addr |-> a, err |-> err])
                                 ELSE failedConnects
           /\ tcpConnections' = ins.set
           /\ con' = ins.cs
           /\ nconns' = ins.c
           /\ async_call("start_read", ins.c, "")
    /\ UNCHANGED <<isolated, mutex, pc, drainMark, drainFrom, mgrVars, shutdownCalls, untracked, refused,
                   peersCb, lastWrite, crashed>>

\* the lambda queued by TCPConnection::start_read
HandleStartRead(e) ==
    /\ Visit("start_read")
    /\ con' = start_read_internal(con, Front(tmp).c, e)
    /\ UNCHANGED <<isolated, events, mutex, pc, wakeupPending, nextId, drainMark, drainFrom,
                   mgrVars,
                   shutdownCalls, tcpConnections, nconns, obsVars, crashed>>

\* the lambda queued by TCPConnection::close
HandleClose ==
    /\ Visit("close")
    /\ con' = close_internal(con, Front(tmp).c, Front(tmp).arg)
    /\ UNCHANGED <<isolated, events, mutex, pc, wakeupPending, nextId, drainMark, drainFrom,
                   mgrVars,
                   shutdownCalls, tcpConnections, nconns, obsVars, crashed>>

\* the lambda queued by TCPConnection::async_send, which captured `this`
HandleSend(err, qsize) ==
    /\ Visit("async_send")
    /\ Alive(Front(tmp).c)
    /\ con' = async_send_task(con, Front(tmp).c, err, qsize)
    /\ lastWrite' = IF HandleClosing(con, Front(tmp).c)
                    THEN lastWrite
                    ELSE [c |-> Front(tmp).c, err |-> err, qsize |-> qsize]
    /\ UNCHANGED <<isolated, events, mutex, pc, wakeupPending, nextId, drainMark, drainFrom,
                   mgrVars,
                   shutdownCalls, tcpConnections, nconns, untracked, refused,
                   failedConnects, peersCb, crashed>>

\* the same lambda run after the connection was destroyed: `this` dangles.
\* The freed object reads as closing, or its storage now holds a later
\* connection d, or the access faults.
HandleSendDangling(err, qsize) ==
    /\ Visit("async_send")
    /\ ~Alive(Front(tmp).c)
    /\ \/ UNCHANGED <<con, lastWrite, crashed>>
       \/ \E d \in Conns :
            /\ d > Front(tmp).c
            /\ con[d].handle # "none"
            /\ Alive(d)
            /\ con' = async_send_task(con, d, err, qsize)
            /\ lastWrite' = IF HandleClosing(con, d)
                            THEN lastWrite
                            ELSE [c |-> d, err |-> err, qsize |-> qsize]
            /\ UNCHANGED crashed
       \/ /\ crashed' = TRUE
          /\ UNCHANGED <<con, lastWrite>>
    /\ UNCHANGED <<isolated, events, mutex, pc, wakeupPending, nextId, drainMark, drainFrom,
                   mgrVars,
                   shutdownCalls, tcpConnections, nconns, untracked, refused,
                   failedConnects, peersCb>>

\* the loop of UV_Helper::shutdown: close_internal(reason) on every element
CloseAll(cs, set, reason) ==
    [c \in Conns |-> IF c \in Range(set) THEN close_internal(cs, c, reason)[c]
                     ELSE cs[c]]

\* shutdown without its `if (closing == true) return;`
shutdown_unguarded(reason) ==
    /\ shutdownCalls' = shutdownCalls + 1
    /\ closing' = TRUE
    /\ wakeupCloses' = wakeupCloses + 1
    /\ listenerCloses' = listenerCloses + 1
    /\ shutdownMark' = IF closing THEN shutdownMark ELSE nextId
    /\ con' = CloseAll(con, tcpConnections, reason)

\* shutdown without its wakeup->close()
shutdown_keeps_wakeup(reason) ==
    /\ shutdownCalls' = shutdownCalls + 1
    /\ UNCHANGED wakeupCloses
    /\ IF closing = TRUE
       THEN UNCHANGED <<closing, listenerCloses, shutdownMark, con>>
       ELSE /\ closing' = TRUE
            /\ listenerCloses' = listenerCloses + 1
            /\ shutdownMark' = nextId
            /\ con' = CloseAll(con, tcpConnections, reason)

\* UV_Helper::shutdown
shutdown(reason) ==
    /\ shutdownCalls' = shutdownCalls + 1
    /\ IF closing = TRUE
       THEN UNCHANGED <<closing, wakeupCloses, listenerCloses, shutdownMark, con>>
       ELSE /\ closing' = TRUE
            /\ wakeupCloses' = wakeupCloses + 1
            /\ listenerCloses' = listenerCloses + 1
            /\ shutdownMark' = nextId
            /\ con' = CloseAll(con, tcpConnections, reason)

\* shutdown(reason) called on the loop thread between two callbacks
Shutdown(reason) ==
    /\ ~crashed
    /\ pc = "idle"
    /\ Work < MaxWork
    /\ shutdown(reason)
    /\ UNCHANGED <<isolated, queueVars, tcpConnections, nconns, obsVars, crashed>>

\* UV_Helper::handle_event(DeferFunc&&) with a callback that calls shutdown
HandleDeferShutdown ==
    /\ Visit("DeferShutdown")
    /\ shutdown(Front(tmp).arg)
    /\ UNCHANGED <<isolated, events, mutex, pc, wakeupPending, nextId, drainMark, drainFrom,
                   tcpConnections,
                   nconns, obsVars, crashed>>

\* a handler without the isolated check
listen_never_refused == FALSE

\* `if (config().node.isolated) return;`
listen_refused == isolated

\* the listener's listen_event handler; storage is the accepted peer's socket
\* address, pos the place the insert takes
ListenEvent(storage, pos) ==
    /\ ~crashed
    /\ pc = "idle"
    /\ listenerCloses = 0
    /\ Work < MaxWork
    /\ IF listen_refused
       THEN /\ refused' = refused + 1
            /\ UNCHANGED <<conVars, untracked>>
       ELSE LET endpoint == get_ipv4_endpoint(storage)
                ins == insert_connection(endpoint, TRUE, pos)
            IN  IF endpoint # ""
                THEN /\ tcpConnections' = ins.set
                     /\ nconns' = ins.c
                     /\ con' = [ins.cs EXCEPT ![ins.c].auth = @ + 1,
                                              ![ins.c].ext = TRUE]
                     /\ UNCHANGED <<untracked, refused>>
                ELSE /\ untracked' = untracked + 1
                     /\ UNCHANGED <<conVars, refused>>
    /\ UNCHANGED <<isolated, queueVars, mgrVars, shutdownCalls, failedConnects,
                   peersCb, lastWrite, crashed>>

\* the end_event handler: close_internal(UV_EOF)
EndEvent(c) ==
    /\ ~crashed
    /\ pc = "idle"
    /\ con[c].handle = "open"
    /\ con[c].connected > 0
    /\ con' = close_internal(con, c, UV_EOF)
    /\ UNCHANGED <<isolated, queueVars, mgrVars, shutdownCalls, tcpConnections,
                   nconns, obsVars, crashed>>

\* the error_event handler: close_internal(e.code()); libuv also reports the
\* requests cancelled by a close this way, before the close completes
ErrorEvent(c, code) ==
    /\ ~crashed
    /\ pc = "idle"
    /\ con[c].handle \in {"open", "closing"}
    /\ con' = close_internal(con, c, code)
    /\ UNCHANGED <<isolated, queueVars, mgrVars, shutdownCalls, tcpConnections,
                   nconns, obsVars, crashed>>

\* tcpConnections.erase(iter) for an iterator that refers to element e
Erased(set, e) == Remove(set, e)

\* the close_event handler of connection c's handle: data(nullptr), erase(iter).
\* Erasing through an iterator whose element is already gone is undefined: the
\* set is left as it is, or loses some element, or the process faults.
CloseEvent(c) ==
    /\ ~crashed
    /\ pc = "idle"
    /\ con[c].handle = "closing"
    /\ con' = [con EXCEPT ![c].handle = "closed", ![c].data = FALSE]
    /\ IF con[c].iter \in Range(tcpConnections)
       THEN /\ tcpConnections' = Erased(tcpConnections, con[c].iter)
            /\ UNCHANGED crashed
       ELSE \/ UNCHANGED <<tcpConnections, crashed>>
            \/ \E x \in Range(tcpConnections) :
                 /\ tcpConnections' = Remove(tcpConnections, x)
                 /\ UNCHANGED crashed
            \/ /\ crashed' = TRUE
               /\ UNCHANGED tcpConnections
    /\ UNCHANGED <<isolated, queueVars, mgrVars, shutdownCalls, nconns, obsVars>>

Next ==
    \/ \E k \in {"GetPeers", "Inspect", "DeferEnqueue"} : Enqueue(k)
    \/ \E a \in Addrs : EnqueueConnect(a)
    \/ \E r \in Reasons : EnqueueShutdown(r)
    \/ \E c \in Conns : start_read(c)
    \/ \E c \in Conns, e \in CloseCodes : close(c, e)
    \/ \E c \in Conns : async_send(c)
    \/ \E c \in Conns : ReleaseExternal(c)
    \/ Wakeup
    \/ SwapUnderLock
    \/ DrainEnd
    \/ HandleGetPeers
    \/ HandleInspect
    \/ HandleDeferEnqueue
    \/ HandleDeferShutdown
    \/ \E err \in ConnectErrs, pos \in InsertPositions(tcpConnections) :
         HandleConnect(err, pos)
    \/ \E e \in ReadErrs : HandleStartRead(e)
    \/ HandleClose
    \/ \E err \in WriteErrs, q \in QueueSizes : HandleSend(err, q)
    \/ \E err \in WriteErrs, q \in QueueSizes : HandleSendDangling(err, q)
    \/ \E r \in Reasons : Shutdown(r)
    \/ \E storage \in PeerSockaddrs, pos \in InsertPositions(tcpConnections) :
         ListenEvent(storage, pos)
    \/ \E c \in Conns : EndEvent(c)
    \/ \E c \in Conns, code \in SocketErrs : ErrorEvent(c, code)
    \/ \E c \in Conns : CloseEvent(c)

Spec == Init /\ [][Next]_vars

\* -------------------------------------------------------------- properties
Ids(q) == [i \in 1..Len(q) |-> q[i].id]

\* C1: the commands enqueued before a drain's swap are all executed by that
\* drain, each exactly once and in the order they were enqueued: the executed
\* commands, the drain's local queue and the shared queue, read in this order,
\* are the commands 1, 2, 3, ... without gap or repetition; every command
\* enqueued before the latest swap is executed or still in the local queue;
\* and the local queue is empty when on_wakeup has returned.
C1_DrainInOrder ==
    /\ Ids(executed) \o Ids(tmp) \o Ids(events) = [i \in 1..(nextId - 1) |-> i]
    /\ \A i \in 1..(drainMark - 1) : i \in Range(Ids(executed)) \cup Range(Ids(tmp))
    /\ pc = "idle" => tmp = <<>>

\* a drain that took two or more commands at once has returned
C1_Witness ==
    /\ pc = "idle"
    /\ drainMark - 1 - drainFrom >= 2
    /\ Len(executed) = drainMark - 1

\* the connections made so far
Made == {c \in Conns : con[c].handle # "none"}

\* C2: whatever closure triggers reach a connection, its owner gets exactly one
\* close notification: a connection has one on_close once its handle is closing
\* and none before, and a trigger that finds the connection closing changes
\* neither the notification nor the handle's closing state.
C2_OneCloseNotification ==
    /\ [](\A c \in Made :
            Len(con[c].onClose) = IF HandleClosing(con, c) THEN 1 ELSE 0)
    /\ [][\A c \in Made :
            HandleClosing(con, c) =>
                /\ con'[c].onClose = con[c].onClose
                /\ HandleClosing(con', c)]_vars

\* two close tasks were executed for one connection, which was notified once
C2_Witness ==
    \E c \in Made : \E i, j \in 1..Len(executed) :
        /\ i < j
        /\ executed[i].kind = "close" /\ executed[i].c = c
        /\ executed[j].kind = "close" /\ executed[j].c = c
        /\ Len(con[c].onClose) = 1

\* C3: a write that failed, or that left more than MAXBUFFER bytes queued, is
\* followed at once by the close of its connection with EBUFFERFULL (the write
\* was issued on an open connection, so this close is the one reported), and
\* no write is ever issued on the handle of a connection that is closing.
C3_BufferFullCloses ==
    /\ [](lastWrite.c # 0 /\ (lastWrite.err # "0" \/ lastWrite.qsize > MAXBUFFER)
            => /\ HandleClosing(con, lastWrite.c)
               /\ con[lastWrite.c].onClose = <<EBUFFERFULL>>)
    /\ [][\A c \in Made :
            HandleClosing(con, c) => con'[c].writes = con[c].writes]_vars

\* an async_send closed the connection for a full buffer and a later
\* async_send for the same connection was executed without a write
C3_Witness ==
    \E c \in Made : \E i, j \in 1..Len(executed) :
        /\ i < j
        /\ executed[i].kind = "async_send" /\ executed[i].c = c
        /\ executed[j].kind = "async_send" /\ executed[j].c = c
        /\ lastWrite.c = c /\ lastWrite.err = "0" /\ lastWrite.qsize > MAXBUFFER
        /\ con[c].onClose = <<EBUFFERFULL>>
        /\ con[c].writes = 1

\* C4: a Connect whose connect call fails at once reports on_failed_connect
\* with the target address and the non-zero code and inserts no connection
\* (and starts no read); only a successful connect inserts one. So every
\* executed Connect command accounts for either one failure report or one
\* outbound connection, never both.
C4_FailedConnectNotInserted ==
    /\ \A i \in 1..Len(failedConnects) :
          failedConnects[i].err # "0" /\ failedConnects[i].addr \in Addrs
    /\ Cardinality({c \in Made : ~con[c].inbound}) + Len(failedConnects)
          = CountKinds(executed, {"Connect"})

\* C5: the close_event of connection c's handle removes exactly c from
\* tcpConnections, which held it until then, and leaves every other member in
\* place; no connection is in tcpConnections twice.
C5_CloseEventRemovesOwn ==
    /\ [](\A i, j \in 1..Len(tcpConnections) :
            tcpConnections[i] = tcpConnections[j] => i = j)
    /\ [][\A c \in Made :
            (con[c].handle = "closing" /\ con'[c].handle = "closed") =>
                /\ c \in Range(tcpConnections)
                /\ tcpConnections' = Remove(tcpConnections, c)]_vars

\* C6: shutdown is idempotent. The wakeup handle and the listener are closed
\* once however often shutdown is called; the first call leaves every member
\* of tcpConnections closing with exactly one close notification, which
\* carries the call's reason if the member was still open and is the earlier
\* one otherwise; a later call changes nothing of the manager, the
\* connections or the shared queue.
C6_ShutdownIdempotent ==
    /\ [](/\ wakeupCloses <= 1
          /\ listenerCloses <= 1
          /\ closing <=> (wakeupCloses = 1 /\ listenerCloses = 1)
          /\ closing <=> shutdownCalls > 0)
    /\ [][(~closing /\ closing') =>
            \E r \in Reasons : \A c \in Range(tcpConnections) :
                /\ HandleClosing(con', c)
                /\ Len(con'[c].onClose) = 1
                /\ con[c].handle = "open" => con'[c].onClose = <<r>>
                /\ con[c].handle # "open" => con'[c] = con[c]]_vars
    /\ [][(closing /\ shutdownCalls' # shutdownCalls) =>
            UNCHANGED <<closing, wakeupCloses, listenerCloses, shutdownMark,
                        tcpConnections, nconns, con, events>>]_vars

\* shutdown was called twice and its first call closed an open connection
C6_Witness ==
    /\ shutdownCalls = 2
    /\ \E c \in Made : con[c].onClose = <<"0">> /\ c \in Range(tcpConnections)

\* the addresses of the IPv4 peers an accept can meet
IPv4Peers == {sa.addr : sa \in {x \in PeerSockaddrs : x.family = "AF_INET"}}

\* C7: an accepted peer that is not IPv4 gets no connection and no
\* authenticate call (the step that drops it changes neither tcpConnections
\* nor any connection); an accepted IPv4 peer gets one inbound connection with
\* its address, inserted into tcpConnections, and authenticate is called
\* exactly once with it. Outbound connections are never authenticated.
C7_AcceptOnlyIPv4 ==
    /\ [](\A c \in Made :
            /\ con[c].inbound => con[c].auth = 1 /\ con[c].peer \in IPv4Peers
            /\ ~con[c].inbound => con[c].auth = 0)
    /\ [][untracked' # untracked =>
            UNCHANGED <<tcpConnections, nconns, con>>]_vars
    /\ [][(nconns' # nconns /\ con'[nconns'].inbound) =>
            /\ nconns' = nconns + 1
            /\ Len(tcpConnections') = Len(tcpConnections) + 1
            /\ Range(tcpConnections') = Range(tcpConnections) \cup {nconns'}
            /\ \A c \in Made : con'[c] = con[c]]_vars

\* a non-IPv4 peer was dropped and an IPv4 peer was accepted and authenticated
C7_Witness ==
    /\ untracked >= 1
    /\ \E c \in Made :
          con[c].inbound /\ con[c].auth = 1 /\ c \in Range(tcpConnections)

\* the ids of the executed commands of one kind, in order
ExecutedIds(kind) == Ids(SelectSeq(executed, LAMBDA e : e.kind = kind))

\* C8: each executed GetPeers command has its callback invoked exactly once,
\* and the list passed holds exactly one (peer, created) entry for each
\* connection that is in tcpConnections when the command executes, and
\* nothing else.
C8_GetPeersSnapshot ==
    /\ [](Ids(peersCb) = ExecutedIds("GetPeers"))
    /\ [][peersCb' # peersCb =>
            /\ Len(peersCb') = Len(peersCb) + 1
            /\ SubSeq(peersCb', 1, Len(peersCb)) = peersCb
            /\ LET data == peersCb'[Len(peersCb')].data
               IN  /\ Len(data) = Len(tcpConnections)
                   /\ \A c \in Range(tcpConnections) :
                        Cardinality({i \in 1..Len(data) :
                            data[i] = [peer |-> con[c].peer,
                                       created |-> con[c].created]}) = 1]_vars

\* a GetPeers callback received two connections, an inbound one among them
C8_Witness ==
    \E k \in 1..Len(peersCb) :
        /\ Len(peersCb[k].data) = 2
        /\ \E i \in 1..2 : peersCb[k].data[i].peer \in IPv4Peers

\* C9: in isolated mode no listen event makes an inbound connection, accepts a
\* socket or calls authenticate, however many connection attempts come in.
C9_IsolatedRefusesInbound ==
    isolated =>
        /\ \A c \in Made : ~con[c].inbound /\ con[c].auth = 0
        /\ untracked = 0

\* isolated mode has seen two connection attempts
C9_Witness == isolated /\ refused >= 2

\* C10: once shutdown has run, no command enqueued after it is ever taken by a
\* drain or executed, the loop starts no new drain, and an enqueue by a
\* producer changes nothing but the shared queue, the command counter and
\* the wakeup signal.
C10_NoDrainAfterShutdown ==
    /\ [](closing =>
            \A id \in Range(Ids(executed)) \cup Range(Ids(tmp)) : id < shutdownMark)
    /\ [][closing /\ pc = "idle" => pc' = "idle"]_vars
    /\ [][(closing /\ Len(events') = Len(events) + 1 /\ tmp' = tmp) =>
            /\ SubSeq(events', 1, Len(events)) = events
            /\ UNCHANGED <<isolated, mutex, tmp, pc, drainMark, drainFrom, executed,
                           closing, wakeupCloses, listenerCloses, shutdownCalls,
                           shutdownMark, tcpConnections, nconns, con, untracked,
                           refused, failedConnects, peersCb, lastWrite,
                           crashed>>]_vars

\* after shutdown a close task was enqueued and signalled; it stays queued
C10_Witness ==
    /\ closing
    /\ pc = "idle"
    /\ wakeupPending
    /\ \E i \in 1..Len(events) :
          events[i].id >= shutdownMark /\ events[i].kind = "close"

\* the loop thread is about to run the queued task of one of the given kinds
\* for connection c, and the step runs it
RunsTaskFor(kinds, c) ==
    /\ pc = "drain"
    /\ tmp # <<>>
    /\ Front(tmp).kind \in kinds
    /\ Front(tmp).c = c
    /\ executed' = Append(executed, Front(tmp))

\* C11: a queued start_read or async_send task that is executed for a
\* connection whose handle is already closing is a no-op: the step starts no
\* read, issues no write, invokes no on_connected and produces no close
\* notification, on any connection.
C11_ClosingTasksAreNoOps ==
    [][\A c \in Made :
        (HandleClosing(con, c) /\ RunsTaskFor({"start_read", "async_send"}, c)) =>
            /\ lastWrite' = lastWrite
            /\ \A d \in Conns :
                /\ con'[d].connected = con[d].connected
                /\ con'[d].writes = con[d].writes
                /\ con'[d].onClose = con[d].onClose]_vars

\* the handlers that call async_call from inside on_wakeup's loop: a DeferFunc
\* callback that enqueues, and connect (through connection.start_read())
ReentrantEnqueue ==
    \/ HandleDeferEnqueue
    \/ \E err \in ConnectErrs, pos \in InsertPositions(tcpConnections) :
         HandleConnect(err, pos)

\* C12 as stated: the command a callback enqueues is executed by a later drain.
\* Finite form: whenever the loop is idle with the start_read that connect
\* enqueued for an outbound connection still in the shared queue, a drain can
\* start.
C12_ReentrantCommandIsDrained ==
    \A i \in 1..Len(events) :
        (/\ pc = "idle"
         /\ ~crashed
         /\ events[i].kind = "start_read"
         /\ ~con[events[i].c].inbound
         /\ con[events[i].c].connected = 0)
        => ENABLED Wakeup

\* C12 (amended): the loop thread holds the queue mutex exactly between the
\* entry of on_wakeup and the end of the swap, never while a command callback
\* runs; so a callback that enqueues is never blocked, a producer can enqueue
\* while callbacks run, and the command a callback enqueues is not lost: it
\* is appended to the shared queue with the wakeup signalled, is not taken by
\* the running drain, and the next swap takes the whole shared queue. (A later
\* drain executes it only if one starts; none does after shutdown.)
C12_MutexOnlyDuringSwap ==
    /\ [](mutex = "loop" <=> pc = "swap")
    /\ []((/\ pc = "drain" /\ tmp # <<>> /\ ~crashed
           /\ Front(tmp).kind \in {"DeferEnqueue", "Connect"})
          => ENABLED ReentrantEnqueue)
    /\ []((pc = "drain" /\ ~crashed /\ Work < MaxWork) => ENABLED Enqueue("Inspect"))
    /\ [](\A id \in Range(Ids(tmp)) \cup Range(Ids(executed)) : id < drainMark)
    /\ [][(pc = "drain" /\ executed' # executed /\ nextId' # nextId) =>
            /\ Len(events') = Len(events) + 1
            /\ SubSeq(events', 1, Len(events)) = events
            /\ events'[Len(events')].id = nextId
            /\ wakeupPending'
            /\ pc' = "drain"]_vars
    /\ [][(pc = "swap" /\ pc' # "swap") => (tmp' = events /\ events' = <<>>)]_vars

\* a DeferFunc callback enqueued a command during one drain and a later drain
\* executed that command
C12_Witness ==
    /\ nextId = 3
    /\ Len(executed) = 2
    /\ executed[1].kind = "DeferEnqueue"
    /\ executed[2].kind = "Inspect"
    /\ drainFrom = 1

\* a step of on_wakeup: the lock, the swap, a command handler, or the return
OnWakeupStep ==
    \/ Wakeup
    \/ SwapUnderLock
    \/ DrainEnd
    \/ HandleGetPeers
    \/ HandleInspect
    \/ HandleDeferEnqueue
    \/ HandleDeferShutdown
    \/ \E err \in ConnectErrs, pos \in InsertPositions(tcpConnections) :
         HandleConnect(err, pos)
    \/ \E e \in ReadErrs : HandleStartRead(e)
    \/ HandleClose
    \/ \E err \in WriteErrs, q \in QueueSizes : HandleSend(err, q)
    \/ \E err \in WriteErrs, q \in QueueSizes : HandleSendDangling(err, q)

\* the loop thread keeps running: a step of on_wakeup that stays possible is
\* eventually taken (libuv calls the async callback after a send, and
\* on_wakeup's loop runs to its end), and a close that was initiated on a
\* handle completes (libuv calls the close callback in a later loop iteration)
FairSpec ==
    /\ Spec
    /\ WF_vars(OnWakeupStep)
    /\ \A c \in Conns : WF_vars(CloseEvent(c))

\* under FairSpec every enqueued command is eventually executed in the runs
\* that reach neither a shutdown call nor a fault
EnqueuedCommandsRunUnlessStopped ==
    \A id \in 1..MaxWork :
        (nextId > id) ~> (id \in Range(Ids(executed)) \/ crashed \/ shutdownCalls > 0)

\* C13: if shutdown is never called, every enqueued command is eventually
\* executed, whatever the interleaving. Finite form: as long as shutdown has
\* neither been called nor been queued, a command waiting in the shared queue
\* or in on_wakeup's local queue never meets a state in which the loop thread
\* cannot take the next step of on_wakeup.
C13_EnqueuedCommandsRun ==
    (/\ shutdownCalls = 0
     /\ CountKinds(events \o tmp, {"DeferShutdown"}) = 0
     /\ events \o tmp # <<>>)
    => ENABLED OnWakeupStep

\* the error codes the closure trigger of the current step passes for
\* connection c: the argument of a queued close task, a failed read of a
\* start_read task, EBUFFERFULL of an async_send task, the reason of a
\* shutdown, UV_EOF of an end_event, the code of an error_event
TriggerCodes(c) ==
    IF pc = "drain" /\ tmp # <<>>
    THEN CASE Front(tmp).kind = "close" /\ Front(tmp).c = c -> {Front(tmp).arg}
           [] Front(tmp).kind = "start_read" /\ Front(tmp).c = c -> ReadErrs \ {"0"}
           [] Front(tmp).kind = "async_send" -> {EBUFFERFULL}
           [] Front(tmp).kind = "DeferShutdown" /\ c \in Range(tcpConnections) ->
                {Front(tmp).arg}
           [] OTHER -> {}
    ELSE IF pc = "idle" /\ shutdownCalls' # shutdownCalls
         THEN IF c \in Range(tcpConnections) THEN Reasons ELSE {}
         ELSE IF pc = "idle"
              THEN SocketErrs \cup (IF con[c].connected > 0 THEN {UV_EOF} ELSE {})
              ELSE {}

\* C14: the close notification of a connection carries the error code of the
\* closure trigger that found it open, and the codes of later triggers on the
\* same connection are discarded: the recorded notification never changes.
C14_FirstCodeReported ==
    /\ [][\A c \in Made :
            (con[c].onClose = <<>> /\ con'[c].onClose # <<>>) =>
                \E x \in TriggerCodes(c) : con'[c].onClose = <<x>>]_vars
    /\ [][\A c \in Made :
            con[c].onClose # <<>> => con'[c].onClose = con[c].onClose]_vars

\* a connection closed by an error_event was later the target of a close task
\* with another code and of a shutdown with a third; ECONNRESET stays reported
C14_Witness ==
    \E c \in Made :
        /\ con[c].onClose = <<"ECONNRESET">>
        /\ \E i \in 1..Len(executed) :
              /\ executed[i].kind = "close"
              /\ executed[i].c = c
              /\ executed[i].arg = "ETIMEOUT"
        /\ shutdownCalls = 1
        /\ c \in Range(tcpConnections)

C16_TasksRunOnLiveConnection ==
    [][\A c \in Made :
        RunsTaskFor({"start_read", "close", "async_send"}, c) => Alive(c)]_vars

\* C17: every socket handle that was accepted or made for an outbound connect
\* and is not closing or closed belongs to a connection in tcpConnections: no
\* accepted socket is left without a TCPConnection, and every connection
\* whose handle is open is a member of the set.
C17_OpenSocketsTracked ==
    /\ untracked = 0
    /\ \A c \in Made : con[c].handle = "open" => c \in Range(tcpConnections)

\* C18: after shutdown tcpConnections eventually becomes empty and stays
\* empty. Finite form: once shutdown has run no connection is added to
\* tcpConnections, and whenever, after shutdown, on_wakeup has returned and
\* every close that was initiated has completed, tcpConnections is empty.
C18_SetEmptiesAfterShutdown ==
    /\ [][closing => Range(tcpConnections') \subseteq Range(tcpConnections)]_vars
    /\ []((/\ closing
           /\ pc = "idle"
           /\ ~crashed
           /\ \A c \in Made : con[c].handle # "closing")
          => tcpConnections = <<>>)

\* C19: a connection leaves tcpConnections only after its close notification:
\* every connection that was made and is no longer in tcpConnections has
\* exactly one close notification, and so has every connection whose handle
\* has finished closing.
C19_RemovedAfterNotification ==
    /\ \A c \in Made : c \notin Range(tcpConnections) => Len(con[c].onClose) = 1
    /\ \A c \in Made : con[c].handle = "closed" => Len(con[c].onClose) = 1

====
